---- MODULE Spec2Model ----
(***************************************************************************)
(* Model of scraper/zillow_scrape_functions.py: the search query builder   *)
(* (SearchZillow.zillow_request), the listing extractor                    *)
(* (ParseProperties.scrape_properties and its inner coroutine scrape), and *)
(* the two entry points find_listings and find_properties.                 *)
(*                                                                         *)
(* One behaviour is one top-level call.  `entry` names the function that   *)
(* was called; the HTTP peer is the environment and answers every GET      *)
(* nondeterministically (network failure, or a status and a body).         *)
(* An action is the code that runs between two suspension points (await).  *)
(* Logging (log.info / log.warning, lines 35-40, 49, 55) has no effect on  *)
(* any value and is not part of the state.                                 *)
(***************************************************************************)
EXTENDS Integers, Sequences, FiniteSets, TLC

VARIABLES
    entry,          \* the function called: zillow_request, scrape_properties, find_listings, find_properties
    epc,            \* position of the entry point (find_listings / find_properties)
    url,            \* find_properties argument
    edata,          \* local of the entry point: data / data_json
    eres,           \* outcome of the entry point once it has returned or raised
    session,        \* the httpx.AsyncClient: "none", "open" or "closed"
    sessionsOpened, \* how many clients the call has constructed
    requests,       \* every GET issued, in order, with the session state at issue time
    replies,        \* the HTTP peer's answer to each request, by request index
    zpc,            \* position of zillow_request
    landing,        \* the landing page body the peer served
    query,          \* zillow_request argument
    filters,        \* zillow_request argument (None, or a mapping)
    categories,     \* zillow_request argument
    query_data,     \* local of zillow_request
    full_query,     \* local of zillow_request: payload of the current loop iteration
    catIdx,         \* loop position in `for category in categories`
    found,          \* local of zillow_request
    served,         \* mapResults arrays the search API has returned, in order
    zres,           \* outcome of zillow_request
    spc,            \* position of scrape_properties (the caller of gather)
    urls,           \* scrape_properties argument
    tpc,            \* per task: "none", "created", "get", "done", "failed"
    tpage,          \* per task: the listing page the peer served
    tres,           \* per task: outcome of scrape(url)
    finished,       \* task indices in the order in which the tasks finished
    gstate,         \* the future returned by asyncio.gather: "none", "pending", "result", "exception"
    gval,           \* its result list or its exception
    sres            \* outcome of scrape_properties

vars == <<entry, epc, url, edata, eres, session, sessionsOpened, requests, replies,
          zpc, landing, query, filters, categories, query_data, full_query,
          catIdx, found, served, zres,
          spc, urls, tpc, tpage, tres, finished, gstate, gval, sres>>

zvars == <<zpc, landing, query, filters, categories, query_data, full_query, catIdx,
           found, served, zres>>
svars == <<spc, urls, tpc, tpage, tres, finished, gstate, gval, sres>>
evars == <<entry, epc, url, edata, eres, session, sessionsOpened>>

-----------------------------------------------------------------------------
(* Bounds of the model *)

MaxResults == 2     \* longest mapResults array the search API returns
MaxUrls == 3        \* longest urls list tried
MaxEntries == 3     \* most entries of a decoded apiCache mapping

(* Program constants *)

RequestIdMin == 2
RequestIdMax == 10

-----------------------------------------------------------------------------
(* Outcomes: a normal value, or a raised exception named by its Python     *)
(* class and the source line that raises it.                               *)

NoErr == [exc |-> "", line |-> 0]
Exc(e, l) == [exc |-> e, line |-> l]
Return(v) == [ok |-> TRUE, val |-> v, err |-> NoErr]
Raise(e, l) == [ok |-> FALSE, val |-> <<>>, err |-> Exc(e, l)]
Pending == [ok |-> FALSE, val |-> <<>>, err |-> NoErr]

(* JSON text: what json.dumps produces and json.loads consumes.  A text    *)
(* is well formed (it decodes to `decoded`) or not.                        *)

JsonText(v) == [str |-> TRUE, wellformed |-> TRUE, decoded |-> v]
BadJson == [str |-> TRUE, wellformed |-> FALSE, decoded |-> <<>>]
PyNone == [str |-> FALSE, wellformed |-> FALSE, decoded |-> <<>>]
PyObject(v) == [str |-> FALSE, wellformed |-> FALSE, decoded |-> v]

\* json.loads(s) called at source line l
json_loads(s, l) ==
    IF ~s.str THEN Raise("TypeError", l)
    ELSE IF ~s.wellformed THEN Raise("JSONDecodeError", l)
    ELSE Return(s.decoded)

\* json.dumps(v): values built from decoded JSON always serialise
json_dumps(v) == JsonText(v)

(* Python mappings are functions over a finite set of string keys. *)

EmptyMap == [k \in {} |-> TRUE]
MapSet(m, key, v) == [k \in (DOMAIN m) \cup {key} |-> IF k = key THEN v ELSE m[k]]

-----------------------------------------------------------------------------
(* The HTTP peer *)

Statuses == {200, 404}
Is2xx(status) == status \in 200..299

NoReply == [state |-> "pending", status |-> 0]
NetFail == [state |-> "neterr", status |-> 0]
Http(status) == [state |-> "http", status |-> status]

\* session.get(...): the request leaves through the client the caller holds
Get(kind, target, payload) ==
    [kind |-> kind, target |-> target, payload |-> payload, open |-> session = "open"]

-----------------------------------------------------------------------------
(* SearchZillow.zillow_request *)

Queries == {"Honolulu, HI"}
CategoryNames == {"cat1", "cat2"}
FilterKeys == {"isForRent", "isAuction"}

\* a filter mapping: key -> {"value": bool}, the inner record kept as its bool.
\* Supplied mappings select (true); the page's own filter state has every
\* key it holds deselected (false).
Mappings == UNION {[S -> {TRUE}] : S \in SUBSET FilterKeys}
PageFilterStates == UNION {[S -> {FALSE}] : S \in SUBSET FilterKeys}

\* the `filters` argument: None (the default) or a mapping
None == [given |-> FALSE, map |-> EmptyMap]
Some(m) == [given |-> TRUE, map |-> m]
FilterArgs == {None} \cup {Some(m) : m \in Mappings}

\* Python truth value of `filters` (line 18): None and {} are both false
Truthy(f) == f.given /\ DOMAIN f.map # {}

\* the fixed mapping of search_rent (lines 57-69)
RentFilters ==
    [k \in {"isForSaleForeclosure", "isMultiFamily", "isAllHomes", "isAuction",
            "isNewConstruction", "isForRent", "isLotLand", "isManufactured",
            "isForSaleByOwner", "isComingSoon", "isForSaleByAgent"}
        |-> k \in {"isAllHomes", "isForRent"}]

\* the `categories` argument: any tuple of category names, repeats included,
\* no longer than the default tuple
CategoryTuples ==
    UNION {[1..n -> CategoryNames] : n \in 0..Cardinality(CategoryNames)}

\* query states a landing page may embed: with or without a filterState
QueryStates(q) ==
    {[k \in {"usersSearchTerm"} |-> q]}
    \cup {MapSet([k \in {"usersSearchTerm"} |-> q], "filterState", m) :
            m \in PageFilterStates}

\* Landing page bodies: whether the text holds "queryState":{...} and
\* whether , "filter follows it, and the brace-delimited text in between.
LandingBodies(q) ==
    {[hasQueryState |-> FALSE, hasFilterAfter |-> f, blob |-> BadJson] : f \in BOOLEAN}
    \cup {[hasQueryState |-> TRUE, hasFilterAfter |-> FALSE, blob |-> BadJson]}
    \cup {[hasQueryState |-> TRUE, hasFilterAfter |-> TRUE, blob |-> b] :
            b \in {BadJson} \cup {JsonText(qs) : qs \in QueryStates(q)}}

\* re.findall(r'"queryState":(\{.+}),\s*"filter', text) (line 17)
re_findall(body) ==
    IF body.hasQueryState /\ body.hasFilterAfter THEN <<body.blob>> ELSE <<>>

\* Faulty variant of ExtractQueryData: no match is taken as an empty query state
ExtractQueryDataOrEmpty(body) ==
    LET m == re_findall(body) IN
    IF Len(m) = 0 THEN Return(EmptyMap) ELSE json_loads(m[1], 17)

\* json.loads(re.findall(...)[0]) (line 17)
ExtractQueryData(body) ==
    LET m == re_findall(body) IN
    IF Len(m) = 0 THEN Raise("IndexError", 17) ELSE json_loads(m[1], 17)

\* lines 18-19
ApplyFilters(qd, f) ==
    IF Truthy(f) THEN MapSet(qd, "filterState", f.map) ELSE qd

\* a lightweight listing summary of a category
MapItem(cat, k) == [category |-> cat, n |-> k]
MapResults(cat, n) == [k \in 1..n |-> MapItem(cat, k)]

\* Search API bodies for a request that wants `cat`
ApiData(cat) ==
    {[totals |-> [c \in T |-> n], results |-> [c \in R |-> MapResults(cat, n)]] :
        T \in {{}, {cat}}, R \in {{}, {cat}}, n \in 0..MaxResults}
ApiBodies(cat) == {BadJson} \cup {JsonText(d) : d \in ApiData(cat)}

\* lines 34-42: api_response.json(), the total, and the mapResults array
ReadApiResponse(body, category) ==
    LET data == json_loads(body, 34) IN
    IF ~data.ok THEN data
    ELSE IF category \notin DOMAIN data.val.totals THEN Raise("KeyError", 35)
    ELSE IF category \notin DOMAIN data.val.results THEN Raise("KeyError", 42)
    ELSE Return(data.val.results[category])

\* Faulty variant of Extend: the new results go in front
ExtendFront(fnd, map_results) == map_results \o fnd

\* found.extend(map_results) (line 43)
Extend(fnd, map_results) == fnd \o map_results

NoQuery == [searchQueryState |-> EmptyMap, wants |-> "", requestId |-> 0]

\* line 14 up to its await: the landing-page GET is issued
ZStart ==
    /\ zpc = "call"
    /\ requests' = Append(requests, Get("landing", query, EmptyMap))
    /\ replies' = Append(replies, NoReply)
    /\ zpc' = "landing"
    /\ UNCHANGED <<evars, svars, landing, query, filters, categories, query_data,
                   full_query, catIdx, found, served, zres>>

\* the frame of zillow_request ends and its locals with it
ZFrameEnds ==
    /\ query_data' = EmptyMap
    /\ full_query' = NoQuery
    /\ found' = <<>>
    /\ catIdx' = 0

\* zillow_request raises
ZRaise(out) ==
    /\ zpc' = "raised"
    /\ zres' = out
    /\ ZFrameEnds
    /\ UNCHANGED <<requests, served>>

\* The head of the for loop (line 27) with query_data = qd, at category i:
\* build the payload and issue the API GET (lines 28-33), or return (line 44).
\* The log keeps the query state and the wanted category of each request;
\* requestId lives in full_query, which each iteration overwrites.
ZLoop(qd, i, fnd, srv) ==
    /\ served' = srv
    /\ IF i > Len(categories)
       THEN /\ zpc' = "returned"
            /\ zres' = Return(fnd)
            /\ ZFrameEnds
            /\ UNCHANGED requests
       ELSE \E rid \in RequestIdMin..RequestIdMax :
            /\ query_data' = qd
            /\ found' = fnd
            /\ catIdx' = i
            /\ full_query' = [searchQueryState |-> qd, wants |-> categories[i],
                              requestId |-> rid]
            /\ requests' = Append(requests,
                   Get("api", "GetSearchPageState",
                       [searchQueryState |-> qd, wants |-> categories[i]]))
            /\ zpc' = "api"
            /\ UNCHANGED zres

\* reply bookkeeping: request number r was answered with `rep`; a request
\* issued in the same step gets an empty slot
Answer(r, rep) ==
    replies' = [k \in 1..Len(requests') |->
                   IF k = r THEN rep ELSE IF k > Len(replies) THEN NoReply ELSE replies[k]]

\* the landing-page GET fails in the network (line 14)
ZLandingNetFail ==
    /\ zpc = "landing"
    /\ ZRaise(Raise("TransportError", 14))
    /\ Answer(Len(requests), NetFail)
    /\ UNCHANGED <<evars, svars, landing, query, filters, categories>>

\* the landing page arrives: lines 17-33, or 17-44 with no categories
ZLandingReply ==
    /\ zpc = "landing"
    /\ \E status \in Statuses, body \in LandingBodies(query) :
        LET qd == ExtractQueryData(body) IN
        /\ IF ~qd.ok THEN ZRaise(qd)
           ELSE ZLoop(ApplyFilters(qd.val, filters), 1, <<>>, <<>>)
        /\ Answer(Len(requests), Http(status))
        /\ landing' = body
    /\ UNCHANGED <<evars, svars, query, filters, categories>>

\* an API GET fails in the network (line 33)
ZApiNetFail ==
    /\ zpc = "api"
    /\ ZRaise(Raise("TransportError", 33))
    /\ Answer(Len(requests), NetFail)
    /\ UNCHANGED <<evars, svars, landing, query, filters, categories>>

\* an API response arrives: lines 34-43, then the next iteration or return
ZApiReply ==
    /\ zpc = "api"
    /\ \E status \in Statuses, body \in ApiBodies(categories[catIdx]) :
        LET mr == ReadApiResponse(body, categories[catIdx]) IN
        /\ IF ~mr.ok THEN ZRaise(mr)
           ELSE ZLoop(query_data, catIdx + 1, Extend(found, mr.val),
                      Append(served, mr.val))
        /\ Answer(Len(requests), Http(status))
    /\ UNCHANGED <<evars, svars, landing, query, filters, categories>>

NoBody == [hasQueryState |-> FALSE, hasFilterAfter |-> FALSE, blob |-> PyNone]

ZInitIdle ==
    /\ landing = NoBody
    /\ query_data = EmptyMap
    /\ full_query = NoQuery
    /\ catIdx = 0
    /\ found = <<>>
    /\ served = <<>>
    /\ zres = Pending

-----------------------------------------------------------------------------
(* ParseProperties.parse_property *)

\* the keys parse_property reads, in the order it reads them, with the
\* source line of each read and the key it writes
PropertyFields ==
    << [src |-> "address",             dst |-> "address",     line |-> 78],
       [src |-> "description",         dst |-> "description", line |-> 79],
       [src |-> "galleryPhotos",       dst |-> "photos",      line |-> 80],
       [src |-> "zipcode",             dst |-> "zipcode",     line |-> 81],
       [src |-> "buildingPhoneNumber", dst |-> "phone",       line |-> 82],
       [src |-> "buildingName",        dst |-> "name",        line |-> 83],
       [src |-> "floorPlans",          dst |-> "floor_plans", line |-> 85] >>

SourceKeys == {PropertyFields[i].src : i \in DOMAIN PropertyFields}

\* a building object of the next-data cache: the seven keys and one more
Building(id) ==
    [k \in SourceKeys \cup {"bedrooms"} |->
        IF k = "galleryPhotos"
        THEN << [url |-> <<"photo", id, 1>>, caption |-> "front"],
                [url |-> <<"photo", id, 2>>, caption |-> "back"] >>
        ELSE <<k, id>>]

Without(m, key) == [k \in (DOMAIN m) \ {key} |-> m[k]]

\* a building whose first gallery photo has no "url"
BadPhotoBuilding(id) ==
    [Building(id) EXCEPT !["galleryPhotos"] = << [caption |-> "front"] >>]

Buildings ==
    {Building(1), BadPhotoBuilding(1)} \cup {Without(Building(1), k) : k \in SourceKeys}

\* whether reading field i of the dict literal raises KeyError
FieldFails(data, i) ==
    LET f == PropertyFields[i] IN
    \/ f.src \notin DOMAIN data
    \/ /\ f.dst = "photos"
       /\ \E p \in DOMAIN data[f.src] : "url" \notin DOMAIN data[f.src][p]

\* lines 77-87: the dict literal is evaluated top to bottom
parse_property(data) ==
    LET bad == {i \in DOMAIN PropertyFields : FieldFails(data, i)}
        first == CHOOSE i \in bad : \A j \in bad : i <= j
    IN  IF bad # {} THEN Raise("KeyError", PropertyFields[first].line)
        ELSE Return([k \in {PropertyFields[i].dst : i \in DOMAIN PropertyFields} |->
                        LET f == CHOOSE i \in DOMAIN PropertyFields : PropertyFields[i].dst = k
                        IN  IF k = "photos"
                            THEN [p \in DOMAIN data[PropertyFields[f].src] |->
                                      data[PropertyFields[f].src][p].url]
                            ELSE data[PropertyFields[f].src]])

-----------------------------------------------------------------------------
(* ParseProperties.scrape_properties.scrape: the extraction from one page *)

BuildingPath == <<"props", "initialReduxState", "gdp", "building">>

RECURSIVE Nest(_, _)
\* the document that holds v under the keys of path
Nest(path, v) ==
    IF path = <<>> THEN v ELSE [k \in {Head(path)} |-> Nest(Tail(path), v)]

RECURSIVE Descend(_, _, _)
\* data[k1][k2]... at source line l
Descend(data, path, l) ==
    IF path = <<>> THEN Return(data)
    ELSE IF Head(path) \notin DOMAIN data THEN Raise("KeyError", l)
    ELSE Descend(data[Head(path)], Tail(path), l)

NextDocs ==
    {Nest(BuildingPath, b) : b \in Buildings}
    \cup {Nest(SubSeq(BuildingPath, 1, 2), EmptyMap)}

\* cache keys, as the words they are made of
CacheKeys ==
    { <<"Variant", "Query">>,
      <<"ForSale", "FullRender", "Query">>,
      <<"Not", "ForSale", "Shopper", "Query">>,
      <<"ForRent", "Query">> }

\* 'ForSale' in k (line 104)
HasForSale(k) == \E i \in DOMAIN k : k[i] = "ForSale"

\* the j-th entry's value: with a "property" field or without one
CacheValue(j, withProperty) ==
    IF withProperty THEN [property |-> [zpid |-> j], status |-> "ok"]
    ELSE [status |-> "ok"]

\* decoded apiCache mappings, as their items() in enumeration order
ApiCaches ==
    UNION {
        {[j \in 1..n |-> [key |-> ks[j], value |-> CacheValue(j, ps[j])]] :
            ks \in {f \in [1..n -> CacheKeys] : \A a, b \in 1..n : a # b => f[a] # f[b]},
            ps \in [1..n -> BOOLEAN]}
        : n \in 0..MaxEntries}

ApolloDocs ==
    {EmptyMap}
    \cup {[k \in {"apiCache"} |-> t] : t \in {BadJson, PyObject(<<>>)}}
    \cup {[k \in {"apiCache"} |-> JsonText(c)] : c \in ApiCaches}

\* a listing page: the text of script#__NEXT_DATA__ and of
\* script#hdpApolloPreloadedData, None where the element is absent
Page(next, apollo) == [next |-> next, apollo |-> apollo]

NextTexts == {BadJson} \cup {JsonText(d) : d \in NextDocs}
ApolloTexts == {BadJson} \cup {JsonText(d) : d \in ApolloDocs}

ListingPages ==
    {Page(PyNone, PyNone)}
    \cup {Page(t, PyNone) : t \in NextTexts}
    \cup {Page(PyNone, t) : t \in ApolloTexts}
    \cup {Page(JsonText(Nest(BuildingPath, Building(1))), t) : t \in ApolloTexts}

\* one page of each outcome, served when several URLs are fetched
FanOutPages ==
    { Page(PyNone, PyNone),
      Page(JsonText(Nest(BuildingPath, Building(1))), PyNone),
      Page(PyNone, JsonText([k \in {"apiCache"} |->
              JsonText(<< [key |-> <<"ForSale", "FullRender", "Query">>,
                           value |-> CacheValue(1, TRUE)] >>)])) }

\* Faulty variant of FirstForSale: the last matching entry is taken
LastForSale(items) ==
    LET hits == {j \in DOMAIN items : HasForSale(items[j].key)}
        j == CHOOSE a \in hits : \A b \in hits : a >= b
    IN  IF hits = {} THEN Raise("RuntimeError", 104)
        ELSE IF "property" \notin DOMAIN items[j].value THEN Raise("KeyError", 104)
        ELSE Return(items[j].value.property)

\* next(v['property'] for k, v in data.items() if 'ForSale' in k) (line 104);
\* StopIteration leaving a coroutine is raised as RuntimeError
FirstForSale(items) ==
    LET hits == {j \in DOMAIN items : HasForSale(items[j].key)}
        j == CHOOSE a \in hits : \A b \in hits : a <= b
    IN  IF hits = {} THEN Raise("RuntimeError", 104)
        ELSE IF "property" \notin DOMAIN items[j].value THEN Raise("KeyError", 104)
        ELSE Return(items[j].value.property)

\* lines 100-105
ApolloBranch(page) ==
    LET doc == json_loads(page.apollo, 103) IN
    IF ~doc.ok THEN doc
    ELSE IF "apiCache" \notin DOMAIN doc.val THEN Raise("KeyError", 103)
    ELSE LET cache == json_loads(doc.val["apiCache"], 103) IN
         IF ~cache.ok THEN cache ELSE FirstForSale(cache.val)

\* lines 96-99
NextBranch(page) ==
    LET doc == json_loads(page.next, 98) IN
    IF ~doc.ok THEN doc
    ELSE LET b == Descend(doc.val, BuildingPath, 99) IN
         IF ~b.ok THEN b ELSE parse_property(b.val)

\* Faulty variant of ScrapePage: a page without either element yields an
\* empty record
ScrapePageLenient(page) ==
    IF page.next.str THEN NextBranch(page)
    ELSE IF page.apollo.str THEN ApolloBranch(page)
    ELSE Return(EmptyMap)

\* lines 94-105: `if data:` is false for None
ScrapePage(page) ==
    IF page.next.str THEN NextBranch(page) ELSE ApolloBranch(page)

-----------------------------------------------------------------------------
(* ParseProperties.scrape_properties: asyncio.gather over one task per URL *)

Tasks == DOMAIN urls

\* the request a task issued: tasks take their first step in creation order
RequestOf(i) == Len(requests) - Cardinality({j \in Tasks : tpc[j] # "created"}) + i

\* line 107: the coroutines are wrapped in tasks and the caller awaits the
\* gathered future; with no URL the future is already done with []
SGather ==
    /\ spc = "call"
    /\ tpc' = [i \in Tasks |-> "created"]
    /\ IF Len(urls) = 0
       THEN /\ gstate' = "result"
            /\ gval' = Return(<<>>)
            /\ spc' = "returned"
            /\ sres' = Return(<<>>)
       ELSE /\ gstate' = "pending"
            /\ spc' = "awaiting"
            /\ UNCHANGED <<gval, sres>>
    /\ UNCHANGED <<evars, zvars, requests, replies, urls, tpage, tres, finished>>

\* line 93 up to its await: task i issues its GET
TaskStart(i) ==
    /\ tpc[i] = "created"
    /\ \A j \in Tasks : j < i => tpc[j] # "created"
    /\ requests' = Append(requests, Get("listing", urls[i], EmptyMap))
    /\ replies' = Append(replies, NoReply)
    /\ tpc' = [tpc EXCEPT ![i] = "get"]
    /\ UNCHANGED <<evars, zvars, spc, urls, tpage, tres, finished, gstate, gval, sres>>

\* Faulty variant of GatherResults: results in the order of completion
GatherResultsAsCompleted(res) == [i \in Tasks |-> res[finished'[i]].val]

\* results of the children in the order of the arguments of gather
GatherResults(res) == [i \in Tasks |-> res[i].val]

\* Faulty variant of GatherDone: the gathered future completes only when
\* every child has finished (wait-all)
GatherDoneWaitAll(i, out, res) ==
    IF gstate # "pending" \/ \E j \in Tasks : res[j] = Pending
    THEN UNCHANGED <<gstate, gval>>
    ELSE IF \E j \in Tasks : ~res[j].ok
         THEN /\ gstate' = "exception"
              /\ gval' = res[CHOOSE j \in Tasks : ~res[j].ok]
         ELSE gstate' = "result" /\ gval' = Return([j \in Tasks |-> res[j].val])

\* gather's done callback for task i, which ended with `out`: the first
\* exception completes the gathered future; otherwise the last child to
\* finish completes it with the list of results
GatherDone(i, out, res) ==
    IF gstate # "pending" THEN UNCHANGED <<gstate, gval>>
    ELSE IF ~out.ok THEN gstate' = "exception" /\ gval' = out
    ELSE IF \A j \in Tasks : res[j].ok
         THEN gstate' = "result" /\ gval' = Return(GatherResults(res))
         ELSE UNCHANGED <<gstate, gval>>

\* task i ends with outcome `out`
TaskEnd(i, out, page) ==
    LET res == [tres EXCEPT ![i] = out] IN
    /\ tpc' = [tpc EXCEPT ![i] = IF out.ok THEN "done" ELSE "failed"]
    /\ tres' = res
    /\ tpage' = [tpage EXCEPT ![i] = page]
    /\ finished' = Append(finished, i)
    /\ GatherDone(i, out, res)

\* the GET of task i fails in the network (line 93)
TaskNetFail(i) ==
    /\ tpc[i] = "get"
    /\ TaskEnd(i, Raise("TransportError", 93), Page(PyNone, PyNone))
    /\ replies' = [replies EXCEPT ![RequestOf(i)] = NetFail]
    /\ UNCHANGED <<evars, zvars, requests, spc, urls, sres>>

\* the page of task i arrives: lines 94-105
TaskReply(i) ==
    /\ tpc[i] = "get"
    /\ \E status \in Statuses,
          page \in (IF Len(urls) = 1 THEN ListingPages ELSE FanOutPages) :
        /\ TaskEnd(i, ScrapePage(page), page)
        /\ replies' = [replies EXCEPT ![RequestOf(i)] = Http(status)]
    /\ UNCHANGED <<evars, zvars, requests, spc, urls, sres>>

\* the caller of gather resumes with the result list or the exception
SResume ==
    /\ spc = "awaiting"
    /\ gstate \in {"result", "exception"}
    /\ spc' = IF gstate = "result" THEN "returned" ELSE "raised"
    /\ sres' = gval
    /\ UNCHANGED <<evars, zvars, requests, replies, urls, tpc, tpage, tres,
                   finished, gstate, gval>>

SInitIdle ==
    /\ tpc = [i \in Tasks |-> "none"]
    /\ tpage = [i \in Tasks |-> Page(PyNone, PyNone)]
    /\ tres = [i \in Tasks |-> Pending]
    /\ finished = <<>>
    /\ gstate = "none"
    /\ gval = Pending
    /\ sres = Pending

-----------------------------------------------------------------------------
(* Entry points: find_listings and find_properties *)

Paths == {1}
ListingUrl(path) == <<"https://www.zillow.com", "/b", path>>
UrlLists == {[i \in 1..n |-> ListingUrl(i)] : n \in 0..MaxUrls}

\* lines 111-113 / 118-122: the client is constructed and entered, and the
\* inner coroutine is called with the arguments the entry point fixes
EOpen ==
    /\ epc = "call"
    /\ session' = "open"
    /\ sessionsOpened' = sessionsOpened + 1
    /\ epc' = "body"
    /\ IF entry = "find_listings"
       THEN /\ zpc' = "call"
            /\ query' = "Honolulu, HI"
            /\ filters' = Some(RentFilters)
            /\ categories' = <<"cat1">>
            /\ UNCHANGED <<svars, landing, query_data, full_query, catIdx, found,
                           served, zres>>
       ELSE /\ spc' = "call"
            /\ urls' = <<ListingUrl(url)>>
            /\ tpc' = [i \in {1} |-> "none"]
            /\ tpage' = [i \in {1} |-> Page(PyNone, PyNone)]
            /\ tres' = [i \in {1} |-> Pending]
            /\ UNCHANGED <<zvars, finished, gstate, gval, sres>>
    /\ UNCHANGED <<entry, url, edata, eres, requests, replies>>

\* Faulty variant of CloseSession: the client is closed on the normal path only
CloseSessionOnSuccess ==
    session' = IF (entry = "find_listings" /\ zres.ok)
                    \/ (entry = "find_properties" /\ sres.ok)
               THEN "closed" ELSE session

\* leaving `async with` (lines 112-114 / 119-123): the client is closed
\* whether the body returned or raised
CloseSession == session' = "closed"

\* find_listings, end of the with block: json.dumps(data), then __aexit__
FindListingsExit ==
    /\ entry = "find_listings"
    /\ epc = "body"
    /\ zpc \in {"returned", "raised"}
    /\ CloseSession
    /\ IF zres.ok
       THEN edata' = json_dumps(zres.val) /\ epc' = "closed" /\ UNCHANGED eres
       ELSE eres' = zres /\ epc' = "raised" /\ UNCHANGED edata
    /\ UNCHANGED <<entry, url, sessionsOpened, requests, replies, zvars, svars>>

\* find_listings, line 115: return json.loads(data_json)
FindListingsReturn ==
    /\ entry = "find_listings"
    /\ epc = "closed"
    /\ LET out == json_loads(edata, 115) IN
        /\ eres' = out
        /\ epc' = IF out.ok THEN "returned" ELSE "raised"
    /\ UNCHANGED <<entry, url, edata, session, sessionsOpened, requests, replies,
                   zvars, svars>>

\* find_properties, end of the with block: __aexit__
FindPropertiesExit ==
    /\ entry = "find_properties"
    /\ epc = "body"
    /\ spc \in {"returned", "raised"}
    /\ CloseSession
    /\ IF sres.ok
       THEN edata' = PyObject(sres.val) /\ epc' = "closed" /\ UNCHANGED eres
       ELSE eres' = sres /\ epc' = "raised" /\ UNCHANGED edata
    /\ UNCHANGED <<entry, url, sessionsOpened, requests, replies, zvars, svars>>

\* find_properties, line 124: return json.loads(data), data being the list
\* that gather returned
FindPropertiesReturn ==
    /\ entry = "find_properties"
    /\ epc = "closed"
    /\ LET out == json_loads(edata, 124) IN
        /\ eres' = out
        /\ epc' = IF out.ok THEN "returned" ELSE "raised"
    /\ UNCHANGED <<entry, url, edata, session, sessionsOpened, requests, replies,
                   zvars, svars>>

-----------------------------------------------------------------------------
(* The specification *)

Entries == {"zillow_request", "scrape_properties", "find_listings", "find_properties"}

Init ==
    /\ entry \in Entries
    /\ eres = Pending
    /\ edata = PyNone
    /\ sessionsOpened = 0
    /\ requests = <<>>
    /\ replies = <<>>
    /\ \/ /\ entry = "zillow_request"
          /\ epc = "none" /\ session = "open" /\ url = 0
          /\ zpc = "call" /\ spc = "idle" /\ urls = <<>>
          /\ query \in Queries
          /\ filters \in FilterArgs
          /\ categories \in CategoryTuples
       \/ /\ entry = "scrape_properties"
          /\ epc = "none" /\ session = "open" /\ url = 0
          /\ zpc = "idle" /\ spc = "call"
          /\ urls \in UrlLists
          /\ query = "" /\ filters = None /\ categories = <<>>
       \/ /\ entry = "find_listings"
          /\ epc = "call" /\ session = "none" /\ url = 0
          /\ zpc = "idle" /\ spc = "idle" /\ urls = <<>>
          /\ query = "" /\ filters = None /\ categories = <<>>
       \/ /\ entry = "find_properties"
          /\ epc = "call" /\ session = "none" /\ url \in Paths
          /\ zpc = "idle" /\ spc = "idle" /\ urls = <<>>
          /\ query = "" /\ filters = None /\ categories = <<>>
    /\ ZInitIdle
    /\ SInitIdle

Next ==
    \/ ZStart
    \/ ZLandingNetFail
    \/ ZLandingReply
    \/ ZApiNetFail
    \/ ZApiReply
    \/ SGather
    \/ \E i \in Tasks : TaskStart(i)
    \/ \E i \in Tasks : TaskNetFail(i)
    \/ \E i \in Tasks : TaskReply(i)
    \/ SResume
    \/ EOpen
    \/ FindListingsExit
    \/ FindListingsReturn
    \/ FindPropertiesExit
    \/ FindPropertiesReturn

Spec == Init /\ [][Next]_vars

-----------------------------------------------------------------------------
(* Properties *)

\* The error kinds of the design, as the exceptions by which the code
\* reports them: a marker that is not found shows as IndexError on the empty
\* findall result (line 17) or as TypeError on json.loads(None) (line 103);
\* a failed GET shows as httpx.TransportError at the line of the GET.
ExtractionErrors == {Exc("IndexError", 17), Exc("TypeError", 103)}
TransportErrors == {Exc("TransportError", l) : l \in {14, 33, 93}}

IsApi(r) == r.kind = "api"
ApiRequests == SelectSeq(requests, IsApi)

RECURSIVE Flatten(_)
Flatten(ss) == IF ss = <<>> THEN <<>> ELSE Head(ss) \o Flatten(Tail(ss))

TaskOver(i) == tpc[i] \in {"done", "failed"}
\* task i got a page (its GET did not fail in the network)
GotPage(i) == TaskOver(i) /\ replies[RequestOf(i)].state = "http"

\* the task that failed first
FirstFailed ==
    LET ks == {k \in DOMAIN finished : tpc[finished[k]] = "failed"}
    IN  finished[CHOOSE k \in ks : \A m \in ks : k <= m]

\* C1: when every fetch task succeeds, whatever the order in which they
\* finish, scrape_properties returns a list as long as urls whose i-th
\* element is the record extracted from the page served for urls[i].
C1_OutputFollowsInputOrder ==
    (entry = "scrape_properties" /\ spc = "returned") =>
        /\ sres.ok
        /\ Len(sres.val) = Len(urls)
        /\ \A i \in Tasks :
            /\ requests[RequestOf(i)].target = urls[i]
            /\ ScrapePage(tpage[i]).ok
            /\ sres.val[i] = ScrapePage(tpage[i]).val

\* three URLs, the tasks finishing in the order 3, 1, 2, pages of two shapes
C1_Witness ==
    /\ entry = "scrape_properties" /\ spc = "returned"
    /\ Len(urls) = 3
    /\ finished = <<3, 1, 2>>
    /\ tpage[1].next.str /\ ~tpage[2].next.str /\ tpage[3].next.str

\* C2: scrape_properties is fail-fast: from the step in which the first task
\* fails, the gathered future holds that task's error and the caller can
\* resume with it although other tasks are still pending; the error the
\* caller gets is the one of the first task to fail.
C2_FailFast ==
    (entry = "scrape_properties" /\ \E i \in Tasks : tpc[i] = "failed") =>
        /\ gstate = "exception"
        /\ gval = tres[FirstFailed]
        /\ spc \in {"awaiting", "raised"}
        /\ spc = "awaiting" => ENABLED SResume
        /\ spc = "raised" => sres = tres[FirstFailed]

\* three URLs, the second fails, the caller has the error, 1 and 3 pending
C2_Witness ==
    /\ entry = "scrape_properties" /\ Len(urls) = 3
    /\ tpc = <<"get", "failed", "get">>
    /\ spc = "raised"
    /\ sres = tres[2]

\* C3: a landing page without the "queryState": marker makes zillow_request
\* fail with an extraction error, the landing-page GET being the only
\* request issued (no request to the search API).
C3_NoMarkerNoApiRequest ==
    (zpc \in {"api", "returned", "raised"} /\ replies[1].state = "http"
        /\ ~landing.hasQueryState) =>
        /\ zpc = "raised"
        /\ zres.err \in ExtractionErrors
        /\ Len(requests) = 1
        /\ requests[1].kind = "landing"
        /\ ApiRequests = <<>>

C3_Witness ==
    /\ entry = "zillow_request" /\ zpc = "raised"
    /\ replies[1] = Http(200)
    /\ ~landing.hasQueryState
    /\ Len(categories) = 2

\* C4: when zillow_request succeeds, its result is the mapResults of the
\* first category in array order, then those of the second, and so on, and
\* one API request was made per category, in the order of the tuple.
C4_ConcatenationInCategoryOrder ==
    (zpc = "returned") =>
        /\ zres.ok
        /\ zres.val = Flatten(served)
        /\ Len(served) = Len(categories)
        /\ Len(ApiRequests) = Len(categories)
        /\ \A k \in DOMAIN categories :
            /\ ApiRequests[k].payload.wants = categories[k]
            /\ \A j \in DOMAIN served[k] : served[k][j].category = categories[k]

C4_Witness ==
    /\ zpc = "returned"
    /\ categories = <<"cat2", "cat1">>
    /\ Len(served[1]) = 2 /\ Len(served[2]) = 1
    /\ Len(zres.val) = 3

\* C5 (as claimed): whenever a filter mapping is supplied, the empty one
\* included, the filterState of every API request is that mapping.
C5_FilterSectionIsSupplied ==
    \A k \in DOMAIN requests :
        (requests[k].kind = "api" /\ filters.given) =>
            /\ "filterState" \in DOMAIN requests[k].payload.searchQueryState
            /\ requests[k].payload.searchQueryState["filterState"] = filters.map

\* C6: a fetched listing page with neither the next-data element nor the
\* Apollo element makes the extraction of that URL fail with an extraction
\* error.
C6_NeitherMarkerFails ==
    \A i \in Tasks :
        (GotPage(i) /\ tpage[i] = Page(PyNone, PyNone)) =>
            /\ tpc[i] = "failed"
            /\ ~tres[i].ok
            /\ tres[i].err \in ExtractionErrors

C6_Witness ==
    /\ entry = "scrape_properties" /\ Len(urls) = 1
    /\ GotPage(1)
    /\ tpage[1] = Page(PyNone, PyNone)
    /\ spc = "raised"

\* a page with only the Apollo element, whose apiCache decodes
ApolloOnly(pg) ==
    /\ ~pg.next.str
    /\ pg.apollo.str /\ pg.apollo.wellformed
    /\ "apiCache" \in DOMAIN pg.apollo.decoded
    /\ pg.apollo.decoded["apiCache"].str
    /\ pg.apollo.decoded["apiCache"].wellformed
CacheItems(pg) == pg.apollo.decoded["apiCache"].decoded

\* C7 (as claimed): the extractor returns the property of the first entry
\* whose key contains "ForSale" and whose value has a "property" field.
C7_FirstQualifyingEntry ==
    \A i \in Tasks :
        (GotPage(i) /\ ApolloOnly(tpage[i])) =>
            LET items == CacheItems(tpage[i])
                ok(j) == HasForSale(items[j].key) /\ "property" \in DOMAIN items[j].value
            IN  \A j \in DOMAIN items :
                    (ok(j) /\ \A a \in 1..(j - 1) : ~ok(a)) =>
                        tres[i] = Return(items[j].value.property)

\* C7 (amended): the extractor looks only at the first entry whose key
\* contains "ForSale": it returns that entry's "property" field, and fails
\* with KeyError when that entry has none; entries before it are skipped
\* and later entries are never selected.
C7_FirstForSaleKey ==
    \A i \in Tasks :
        (GotPage(i) /\ ApolloOnly(tpage[i])) =>
            LET items == CacheItems(tpage[i]) IN
            \A j \in DOMAIN items :
                (HasForSale(items[j].key)
                    /\ \A a \in 1..(j - 1) : ~HasForSale(items[a].key)) =>
                    IF "property" \in DOMAIN items[j].value
                    THEN tres[i] = Return(items[j].value.property)
                    ELSE tres[i] = Raise("KeyError", 104)

\* a key without "ForSale" first, then two "ForSale" keys with a property
C7_Witness ==
    /\ Len(urls) = 1 /\ GotPage(1) /\ ApolloOnly(tpage[1])
    /\ LET items == CacheItems(tpage[1]) IN
        /\ Len(items) = 3
        /\ ~HasForSale(items[1].key)
        /\ "property" \in DOMAIN items[2].value
        /\ "property" \in DOMAIN items[3].value
        /\ tres[1] = Return(items[2].value.property)

\* C8: an entry point opens exactly one session, every request of the call
\* leaves through the open session, and the session is closed when the
\* call has returned or raised, on every exit path.
C8_SessionScopedToCall ==
    (entry \in {"find_listings", "find_properties"}) =>
        /\ sessionsOpened = IF epc = "call" THEN 0 ELSE 1
        /\ \A k \in DOMAIN requests : requests[k].open
        /\ epc = "body" => session = "open"
        /\ epc \in {"closed", "returned", "raised"} => session = "closed"

\* find_listings raised by a failure inside the with block, after two GETs
C8_Witness ==
    /\ entry = "find_listings"
    /\ epc = "raised"
    /\ eres.err = Exc("KeyError", 42)
    /\ Len(requests) = 2
    /\ session = "closed"

\* C9 (as claimed): find_properties, its page fetched and extracted, ends
\* with a normal result that is the record of that URL.
C9_FindPropertiesReturnsRecord ==
    (entry = "find_properties" /\ spc = "returned" /\ epc \in {"returned", "raised"}) =>
        /\ epc = "returned"
        /\ eres.ok
        /\ eres.val = sres.val[1]

\* C10 (as claimed): a GET that fails in the network or is answered with a
\* non-2xx status makes its operation fail with a transport error, and no
\* GET is issued a second time.
C10_BadReplyIsTransportError ==
    /\ Len(requests) <= 1 + Len(categories) + Len(urls)
    /\ \A k \in DOMAIN requests :
        (requests[k].kind \in {"landing", "api"} /\ k <= Len(replies)
            /\ (replies[k].state = "neterr"
                \/ (replies[k].state = "http" /\ ~Is2xx(replies[k].status)))) =>
            (zpc = "raised" /\ zres.err \in TransportErrors)
    /\ \A i \in Tasks :
        (TaskOver(i) /\ (replies[RequestOf(i)].state = "neterr"
            \/ ~Is2xx(replies[RequestOf(i)].status))) =>
            (tpc[i] = "failed" /\ tres[i].err \in TransportErrors)

====
